---- MODULE Spec2Model ----
(***************************************************************************)
(* Model of calculadora1718horas.py: the retrying / day-fallback fetch     *)
(* (get_yf_data), the delay policy (should_apply_delay), the 17:00         *)
(* alignment (get_prices_and_calculate), the two price formulas and the    *)
(* per-ticker part of main.                                                *)
(*                                                                         *)
(* Time.  An instant is an integer number of ticks counted from 00:00:00   *)
(* of the day on which the resolution starts, in the domestic timezone     *)
(* (America/Argentina/Buenos_Aires); TicksPerSec ticks make one second, so *)
(* instants carry a sub-second part.  A date is a day number (0 = that     *)
(* day).  Floats are modelled as exact rationals <<num, den>>.             *)
(***************************************************************************)
EXTENDS Integers, Sequences, FiniteSets, TLC

\* None.  Every value that can be None is a tuple, a record or a sequence.
Null == <<>>

\* ---- bounds of the model
TicksPerSec == 2
MaxBars == 2
MaxFaults == 2

\* ---- program constants
retries == 3
max_days_back == 5
DelayMinutes == 20
ToleranceMinutes == 10
SleepSeconds == 1

Second == TicksPerSec
Minute == 60 * Second
Day == 24 * 60 * Minute
HMS(h, m, s) == ((h * 60 + m) * 60 + s) * Second

Abs(x) == IF x < 0 THEN -x ELSE x

\* ---- datetime helpers
DateOf(t) == t \div Day
TimeOf(t) == t % Day
\* datetime.replace(hour, minute, second=.., microsecond=0)
ReplaceHMS(t, h, m, s) == DateOf(t) * Day + HMS(h, m, s)
\* datetime.replace(microsecond=0)
ReplaceMicro0(t) == t - (t % Second)
\* datetime.replace(second=0, microsecond=0)
ReplaceSecond0(t) == t - (t % Minute)
\* strftime('%H:%M:%S'): hour, minute and whole second of the time of day
StrfHMS(t) ==
    LET s == TimeOf(t) \div Second
    IN  <<s \div 3600, (s \div 60) % 60, s % 60>>
\* index.date of a bar whose index is in the provider's timezone
RawDate(t, off) == (t + off) \div Day

\* ---- floats as rationals
RECURSIVE GCD(_, _)
GCD(a, b) == IF b = 0 THEN a ELSE GCD(b, a % b)
Frac(n, d) ==
    LET g == GCD(Abs(n), Abs(d))
        s == IF d < 0 THEN -1 ELSE 1
    IN  <<(s * n) \div g, (s * d) \div g>>
Float(i) == <<i, 1>>
RatAdd(x, y) == Frac(x[1] * y[2] + y[1] * x[2], x[2] * y[2])
RatSub(x, y) == Frac(x[1] * y[2] - y[1] * x[2], x[2] * y[2])
RatMul(x, y) == Frac(x[1] * y[1], x[2] * y[2])
RatDiv(x, y) == Frac(x[1] * y[2], x[2] * y[1])
Positive(x) == x # Null /\ x[1] > 0
\* Python truthiness of None / a number
Truthy(x) == x # Null /\ x[1] # 0

\* ---- series: sequences of bars [ts, close] in index order
RECURSIVE SortBars(_)
SortBars(S) ==
    IF S = {} THEN <<>>
    ELSE LET b == CHOOSE x \in S : \A y \in S : x.ts <= y.ts
         IN  <<b>> \o SortBars(S \ {b})

Last(s) == s[Len(s)]

\* ---- state
VARIABLES
    clock,          \* wall clock (datetime.now), in ticks
    tzOffset,       \* provider index timezone minus domestic timezone, in ticks
    argMarket,      \* the bars that exist for the domestic symbol
    usMarket,       \* the bars that exist for the foreign symbol
    faults,         \* transient provider failures still to come
    pc,             \* position in main / get_prices_and_calculate
    now,            \* get_prices_and_calculate: now
    apply_us_delay, \* get_prices_and_calculate: apply_us_delay
    result,         \* get_prices_and_calculate: result
    us_data,        \* get_prices_and_calculate: us_data
    closest_time,   \* get_prices_and_calculate: closest_time
    ticker,         \* get_yf_data: which symbol is being fetched
    apply_delay,    \* get_yf_data: apply_delay
    days_back,      \* get_yf_data: days_back
    attempt,        \* get_yf_data: attempt
    fstate,         \* get_yf_data: TryAttempt / Success / Failed
    stock,          \* get_yf_data: the returned series, Null for None
    calls,          \* the (days_back, attempt) pairs of the provider calls made
    allEmpty,       \* every call of this fetch returned an empty series
    priorEmpty,     \* every call on a day before the last call's returned an empty series
    lastOutcome,    \* how the last provider call ended
    lastRaw,        \* what the last provider call returned, before the filter
    lastReq,        \* the window the last provider call asked for, and when
    lastPos,        \* the (days_back, attempt) of the last provider call
    ratio,          \* main: ratio
    arg_price,      \* main: arg_price
    us_price_17,    \* main: us_price_17
    us_price_current,     \* main: us_price_current
    theoretical_price,    \* main: theoretical_price
    implied_rate_17,      \* main: implied_rate_17
    implied_rate_current, \* main: implied_rate_current
    summary_row,    \* main: the row appended to all_summary_data, Null if none
    raised          \* an exception left the function that was called

envVars == <<tzOffset, argMarket, usMarket>>
resolveVars == <<now, apply_us_delay, result, us_data, closest_time>>
fetchVars == <<ticker, apply_delay, days_back, attempt, fstate, stock>>
histVars == <<calls, allEmpty, priorEmpty, lastOutcome, lastRaw, lastReq, lastPos>>
mainVars == <<ratio, arg_price, us_price_17, us_price_current, theoretical_price,
              implied_rate_17, implied_rate_current, summary_row>>
vars == <<clock, faults, pc, raised, envVars, resolveVars, fetchVars, histVars, mainVars>>

\* ---- should_apply_delay
market_start(t) == ReplaceHMS(t, 11, 30, 0)
market_end(t) == ReplaceHMS(t, 17, 0, 0)
\* a closed session interval, [11:30, 17:00]
should_apply_delay_closed(t) ==
    market_start(t) <= ReplaceMicro0(t) /\ ReplaceMicro0(t) <= market_end(t)

should_apply_delay(t) ==
    market_start(t) <= ReplaceMicro0(t) /\ ReplaceMicro0(t) < market_end(t)

\* ---- get_yf_data
start_date(t) == DateOf(t)
end_date(t) == DateOf(t) + 1
adjusted_start_date(d) == start_date(now) - d
\* only the start of the window is shifted
adjusted_end_date_unshifted(d) == end_date(now)

adjusted_end_date(d) == end_date(now) - d

\* The provider: the bars of the symbol dated inside [start, end) in the
\* provider's timezone that exist by the time of the call, in time order.
Download(sym, start, end) ==
    LET mkt == IF sym = "arg" THEN argMarket ELSE usMarket
        off == IF sym = "arg" THEN 0 ELSE tzOffset
    IN  SortBars({b \in mkt : /\ start <= RawDate(b.ts, off)
                              /\ RawDate(b.ts, off) < end
                              /\ b.ts <= clock})

delay_mask(b, current_time) == b.ts <= current_time - DelayMinutes * Minute
DelayFilter(s, current_time) == SelectSeq(s, LAMBDA b : delay_mask(b, current_time))
Filtered(raw, delay, current_time) ==
    IF delay THEN DelayFilter(raw, current_time) ELSE raw

\* How one attempt ends, from what the provider did.
Outcome(kind, raw, delay, current_time) ==
    IF kind = "raise" THEN "exception"
    ELSE IF raw = <<>> THEN "empty"
    ELSE IF Filtered(raw, delay, current_time) = <<>> THEN "filtered"
    ELSE "data"

\* one attempt too many on every day
NextPosition_extra_attempt(d, a) ==
    IF a + 1 <= retries THEN [days_back |-> d, attempt |-> a + 1, fstate |-> "TryAttempt"]
    ELSE IF d + 1 < max_days_back
         THEN [days_back |-> d + 1, attempt |-> 0, fstate |-> "TryAttempt"]
         ELSE [days_back |-> d, attempt |-> a, fstate |-> "Failed"]

\* Where the two loops stand after an attempt that did not return.
NextPosition(d, a) ==
    IF a + 1 < retries THEN [days_back |-> d, attempt |-> a + 1, fstate |-> "TryAttempt"]
    ELSE IF d + 1 < max_days_back
         THEN [days_back |-> d + 1, attempt |-> 0, fstate |-> "TryAttempt"]
         ELSE [days_back |-> d, attempt |-> a, fstate |-> "Failed"]

\* the second emptiness test (line 35) left out
AfterOutcome_unfiltered(o, d, a) ==
    IF o \in {"data", "filtered"}
    THEN [days_back |-> d, attempt |-> a, fstate |-> "Success"]
    ELSE NextPosition(d, a)

AfterOutcome(o, d, a) ==
    IF o = "data" THEN [days_back |-> d, attempt |-> a, fstate |-> "Success"]
    ELSE NextPosition(d, a)

BeginFetch(sym, delay) ==
    /\ ticker' = sym
    /\ apply_delay' = delay
    /\ days_back' = 0
    /\ attempt' = 0
    /\ fstate' = "TryAttempt"
    /\ stock' = Null
    /\ calls' = <<>>
    /\ allEmpty' = TRUE
    /\ priorEmpty' = TRUE
    /\ lastOutcome' = "none"
    /\ lastRaw' = <<>>
    /\ lastReq' = Null
    /\ lastPos' = Null

\* One pass of the inner loop: a provider call, the delay filter, and either
\* the return or the sleep.
Attempt(kind, raw) ==
    LET o == Outcome(kind, raw, apply_delay, clock)
        nxt == AfterOutcome(o, days_back, attempt)
    IN  /\ lastReq' = [start |-> adjusted_start_date(days_back),
                        end |-> adjusted_end_date(days_back), at |-> clock]
        /\ lastRaw' = raw
        /\ lastOutcome' = o
        /\ lastPos' = <<days_back, attempt>>
        /\ calls' = Append(calls, <<days_back, attempt>>)
        /\ allEmpty' = (allEmpty /\ o = "empty")
        /\ priorEmpty' = IF attempt = 0 THEN allEmpty ELSE priorEmpty
        /\ days_back' = nxt.days_back
        /\ attempt' = nxt.attempt
        /\ fstate' = nxt.fstate
        /\ stock' = IF o = "data" THEN Filtered(raw, apply_delay, clock) ELSE Null
        /\ clock' = IF o = "data" THEN clock ELSE clock + SleepSeconds * Second
        /\ UNCHANGED <<ticker, apply_delay>>

Fetching == pc \in {"fetch_arg", "fetch_us"} /\ fstate = "TryAttempt"

AttemptAnswered ==
    /\ Fetching
    /\ Attempt("answer", Download(ticker, adjusted_start_date(days_back),
                                  adjusted_end_date(days_back)))
    /\ UNCHANGED <<faults, pc, raised, envVars, resolveVars, mainVars>>

AttemptEmptyFault ==
    /\ Fetching
    /\ faults > 0
    /\ faults' = faults - 1
    /\ Attempt("answer", <<>>)
    /\ UNCHANGED <<pc, raised, envVars, resolveVars, mainVars>>

AttemptException ==
    /\ Fetching
    /\ faults > 0
    /\ faults' = faults - 1
    /\ Attempt("raise", <<>>)
    /\ UNCHANGED <<pc, raised, envVars, resolveVars, mainVars>>

\* ---- get_prices_and_calculate
target_time(t) == ReplaceHMS(t, 17, 0, 0)
window_start(t) == target_time(t) - ToleranceMinutes * Minute
window_end(t) == target_time(t) + ToleranceMinutes * Minute

\* no restriction to today's bars
today_data_any_day(data, t) == data

\* us_data[us_data.index.date == now.date()]
today_data(data, t) ==
    SelectSeq(data, LAMBDA b : RawDate(b.ts, tzOffset) = DateOf(t))

\* a window that is open at its end
target_mask_open_end(b, t) ==
    /\ TimeOf(b.ts) >= TimeOf(window_start(t))
    /\ TimeOf(b.ts) < TimeOf(window_end(t))

\* index.time of the bar in the domestic timezone against the window's times
target_mask(b, t) ==
    /\ TimeOf(b.ts) >= TimeOf(window_start(t))
    /\ TimeOf(b.ts) <= TimeOf(window_end(t))

window_data(data, t) ==
    SelectSeq(today_data(data, t), LAMBDA b : target_mask(b, t))

\* the key of min(): abs(x.replace(second=0, microsecond=0) - target_time)
closest_key(x, t) == Abs(ReplaceSecond0(x) - target_time(t))

\* min(window_data.index, key=...): the first bar of least key
closest(wd, t) ==
    LET i == CHOOSE k \in 1..Len(wd) :
                 /\ \A j \in 1..Len(wd) : closest_key(wd[k].ts, t) <= closest_key(wd[j].ts, t)
                 /\ \A j \in 1..(k - 1) : closest_key(wd[j].ts, t) > closest_key(wd[k].ts, t)
    IN  wd[i]

EmptyResult(delayed) ==
    [arg_price |-> Null, us_price_17 |-> Null, us_price_18 |-> Null,
     arg_time |-> Null, us_time |-> Null, time_17 |-> Null,
     delayed_status |-> IF delayed THEN "DELAYED" ELSE "REAL-TIME"]

\* lines 66-88: now, the delay flag, the empty result, and the domestic fetch begins
Start ==
    /\ pc = "start"
    /\ now' = clock
    /\ apply_us_delay' = should_apply_delay(clock)
    /\ result' = EmptyResult(should_apply_delay(clock))
    /\ BeginFetch("arg", TRUE)
    /\ pc' = "fetch_arg"
    /\ UNCHANGED <<clock, faults, raised, envVars, us_data, closest_time, mainVars>>

\* lines 89-94: the domestic quote is stored and the foreign fetch begins
ArgFetched ==
    /\ pc = "fetch_arg"
    /\ fstate \in {"Success", "Failed"}
    /\ result' = IF stock # Null /\ Len(stock) > 0
                 THEN [result EXCEPT !.arg_price = Float(Last(stock).close),
                                     !.arg_time = StrfHMS(Last(stock).ts)]
                 ELSE result
    /\ BeginFetch("us", apply_us_delay)
    /\ pc' = "fetch_us"
    /\ UNCHANGED <<clock, faults, raised, envVars, now, apply_us_delay, us_data, closest_time, mainVars>>

WithLatest(r, data) ==
    [r EXCEPT !.us_price_18 = Float(Last(data).close),
              !.us_time = StrfHMS(Last(data).ts)]

WithTarget(r, data, t) ==
    IF window_data(data, t) = <<>> THEN r
    ELSE [r EXCEPT !.us_price_17 = Float(closest(window_data(data, t), t).close),
                   !.time_17 = StrfHMS(closest(window_data(data, t), t).ts)]

\* lines 95-123: the latest foreign quote, the 17:00 lookup, and the return
UsFetched ==
    /\ pc = "fetch_us"
    /\ fstate \in {"Success", "Failed"}
    /\ us_data' = stock
    /\ result' = IF stock # Null /\ Len(stock) > 0
                 THEN WithTarget(WithLatest(result, stock), stock, now)
                 ELSE result
    /\ closest_time' = IF stock # Null /\ Len(stock) > 0 /\ window_data(stock, now) # <<>>
                       THEN <<closest(window_data(stock, now), now).ts>>
                       ELSE Null
    /\ pc' = "resolved"
    /\ UNCHANGED <<clock, faults, raised, envVars, now, apply_us_delay, fetchVars, histVars, mainVars>>

\* ---- the price formulas
\* the ratio applied to the theoretical price
calculate_theoretical_price_scaled(a, p17, p18, r) ==
    IF ~Truthy(p17) \/ p17 = Float(0) THEN Null
    ELSE LET pct_change == RatDiv(RatSub(p18, p17), p17)
             theoretical_price_ == RatMul(a, RatAdd(Float(1), pct_change))
         IN  IF r = Null THEN theoretical_price_ ELSE RatMul(theoretical_price_, r)

calculate_theoretical_price(a, p17, p18, r) ==
    IF ~Truthy(p17) \/ p17 = Float(0) THEN Null
    ELSE LET pct_change == RatDiv(RatSub(p18, p17), p17)
         IN  RatMul(a, RatAdd(Float(1), pct_change))

\* the arithmetic of calculate_theoretical_price on None raises TypeError
theoretical_price_raises(a, p17, p18, r) ==
    Truthy(p17) /\ (a = Null \/ p18 = Null)

calculate_implied_exchange_rate(a, p, r) ==
    IF Truthy(a) /\ Truthy(p) /\ Truthy(r) /\ Positive(p)
    THEN RatDiv(RatMul(a, r), p)
    ELSE Null

\* ---- main, for one selected ticker
\* f"{x:.2f}": the number in hundredths, rounded
Fmt2(x) == <<(x[1] * 200 + x[2]) \div (2 * x[2])>>
FmtOrNA(x) == IF Truthy(x) THEN Fmt2(x) ELSE Null

\* what st.number_input can hand back (min_value=0.0, value=0.0)
ManualInputs == {Float(0), Float(3)}
\* the Ratio column of TickersRatios.csv
Ratios == {Float(0), Frac(1, 2), Float(2)}

\* lines 174-176 and 191-276: the row's ratio, the three prices (fetched, or
\* typed in where the fetch left None), the theoretical price, the two rates
MainCompute ==
    /\ pc = "resolved"
    /\ \E r \in Ratios, ma \in ManualInputs, m17 \in ManualInputs, mc \in ManualInputs :
        LET a == IF result.arg_price # Null THEN result.arg_price ELSE ma
            p17 == IF result.us_price_17 # Null THEN result.us_price_17 ELSE m17
            pc18 == IF result.us_price_18 # Null THEN result.us_price_18 ELSE mc
        IN  /\ ratio' = r
            /\ arg_price' = a
            /\ us_price_17' = p17
            /\ us_price_current' = pc18
            /\ theoretical_price' =
                   IF Positive(a) /\ Positive(p17) /\ Positive(pc18)
                   THEN calculate_theoretical_price(a, p17, pc18, r)
                   ELSE Null
            /\ implied_rate_current' =
                   IF Positive(a) /\ Positive(pc18)
                   THEN calculate_implied_exchange_rate(a, pc18, r)
                   ELSE Null
            /\ implied_rate_17' =
                   IF Positive(a) /\ Positive(p17)
                   THEN calculate_implied_exchange_rate(a, p17, r)
                   ELSE Null
    /\ pc' = "computed"
    /\ UNCHANGED <<clock, faults, raised, envVars, resolveVars, fetchVars, histVars, summary_row>>

\* lines 278-280: the fallback for the implied rate
FallbackRate(r17, rcur) == IF ~Truthy(r17) /\ Truthy(rcur) THEN rcur ELSE r17

Fallback ==
    /\ pc = "computed"
    /\ implied_rate_17' = FallbackRate(implied_rate_17, implied_rate_current)
    /\ pc' = "substituted"
    /\ UNCHANGED <<clock, faults, raised, envVars, resolveVars, fetchVars, histVars,
                   ratio, arg_price, us_price_17, us_price_current, theoretical_price,
                   implied_rate_current, summary_row>>

SummaryRow ==
    [ratio |-> ratio,
     cierre_argentina |-> Fmt2(arg_price),
     precio_eeuu_17 |-> Fmt2(us_price_17),
     cierre_eeuu |-> Fmt2(us_price_current),
     precio_teorico |-> FmtOrNA(theoretical_price),
     diferencia |-> IF Truthy(theoretical_price)
                    THEN Fmt2(RatSub(theoretical_price, arg_price)) ELSE Null,
     tc_implicito_17 |-> FmtOrNA(implied_rate_17),
     tc_implicito_actual |-> FmtOrNA(implied_rate_current)]

\* lines 282-307: the rates are shown and the summary row is appended
Summary ==
    /\ pc = "substituted"
    /\ summary_row' = IF Positive(arg_price) /\ Positive(us_price_17) /\ Positive(us_price_current)
                      THEN SummaryRow ELSE Null
    /\ pc' = "done"
    /\ UNCHANGED <<clock, faults, raised, envVars, resolveVars, fetchVars, histVars,
                   ratio, arg_price, us_price_17, us_price_current, theoretical_price,
                   implied_rate_17, implied_rate_current>>

\* ---- the initial states
Bar(t, p) == [ts |-> t, close |-> p]
Prices == {1, 2}
\* the markets of at most MaxBars bars at the instants T
Markets(T, P) ==
    {{Bar(t, f[t]) : t \in DOMAIN f} :
        f \in UNION {[X -> P] : X \in {Y \in SUBSET T : Cardinality(Y) <= MaxBars}}}

\* provider index in America/New_York (one hour behind) or in UTC (three ahead)
TzOffsets == {-HMS(1, 0, 0), HMS(3, 0, 0)}

NowChoices ==
    {HMS(10, 0, 0), HMS(11, 29, 59) + 1, HMS(11, 30, 0), HMS(12, 0, 0),
     HMS(16, 59, 59) + 1, HMS(17, 0, 0), HMS(18, 0, 0)}

\* bars just older and just younger than the 20 minutes, a fresh one, yesterday's
DelayInstants(c) ==
    {c - DelayMinutes * Minute - Second, c - DelayMinutes * Minute + Second,
     c - Minute, c - Day}

\* bars around 17:00 today, and yesterday's
AlignInstants ==
    {HMS(16, 49, 59) + 1, HMS(16, 50, 0), HMS(16, 59, 0), HMS(16, 59, 59),
     HMS(17, 0, 30), HMS(17, 1, 0), HMS(17, 10, 0), HMS(17, 10, 0) + 1,
     HMS(17, 0, 0) - Day, HMS(21, 30, 0) - Day}

InitProgram ==
    /\ faults = MaxFaults
    /\ pc = "start"
    /\ raised = FALSE
    /\ now = 0
    /\ apply_us_delay = FALSE
    /\ result = EmptyResult(FALSE)
    /\ us_data = Null
    /\ closest_time = Null
    /\ ticker = "arg"
    /\ apply_delay = FALSE
    /\ days_back = 0
    /\ attempt = 0
    /\ fstate = "Idle"
    /\ stock = Null
    /\ calls = <<>>
    /\ allEmpty = TRUE
    /\ priorEmpty = TRUE
    /\ lastOutcome = "none"
    /\ lastRaw = <<>>
    /\ lastReq = Null
    /\ lastPos = Null
    /\ ratio = Null
    /\ arg_price = Null
    /\ us_price_17 = Null
    /\ us_price_current = Null
    /\ theoretical_price = Null
    /\ implied_rate_17 = Null
    /\ implied_rate_current = Null
    /\ summary_row = Null

\* any time of day against bars around the 20-minute delay
InitDelay ==
    /\ clock \in NowChoices
    /\ tzOffset = -HMS(1, 0, 0)
    /\ usMarket \in Markets(DelayInstants(clock), {1})
    /\ argMarket \in Markets({clock - DelayMinutes * Minute + Second, clock - Day}, {2})

\* the same with prices that move
MovingInstants == {HMS(16, 59, 59), HMS(17, 0, 30), HMS(17, 10, 0), HMS(17, 0, 0) - Day}

\* after the close, against bars around 17:00
InitAlign ==
    /\ clock = HMS(17, 30, 0)
    /\ tzOffset \in TzOffsets
    /\ usMarket \in Markets(AlignInstants, {1}) \cup Markets(MovingInstants, Prices)
    /\ argMarket = {Bar(HMS(16, 30, 0), 2)}

Init == InitProgram /\ (InitDelay \/ InitAlign)

Next ==
    \/ Start
    \/ AttemptAnswered
    \/ AttemptEmptyFault
    \/ AttemptException
    \/ ArgFetched
    \/ UsFetched
    \/ MainCompute
    \/ Fallback
    \/ Summary

Spec == Init /\ [][Next]_vars

\* ---- the two formulas on their own, over inputs of every kind
CalcPrices == {Null, Float(-100), Float(0), Float(50), Float(55), Float(100)}
CalcRatios == {Null, Float(0), Frac(1, 2), Float(2)}

InitCalc ==
    /\ clock = 0
    /\ tzOffset = 0
    /\ argMarket = {}
    /\ usMarket = {}
    /\ faults = 0
    /\ pc = "calc"
    /\ raised = FALSE
    /\ now = 0
    /\ apply_us_delay = FALSE
    /\ result = EmptyResult(FALSE)
    /\ us_data = Null
    /\ closest_time = Null
    /\ ticker = "arg"
    /\ apply_delay = FALSE
    /\ days_back = 0
    /\ attempt = 0
    /\ fstate = "Idle"
    /\ stock = Null
    /\ calls = <<>>
    /\ allEmpty = TRUE
    /\ priorEmpty = TRUE
    /\ lastOutcome = "none"
    /\ lastRaw = <<>>
    /\ lastReq = Null
    /\ lastPos = Null
    /\ ratio \in CalcRatios
    /\ arg_price \in CalcPrices
    /\ us_price_17 \in CalcPrices
    /\ us_price_current \in CalcPrices
    /\ theoretical_price = Null
    /\ implied_rate_17 = Null
    /\ implied_rate_current = Null
    /\ summary_row = Null

CalcTheoretical ==
    /\ pc = "calc"
    /\ raised' = theoretical_price_raises(arg_price, us_price_17, us_price_current, ratio)
    /\ theoretical_price' =
           IF theoretical_price_raises(arg_price, us_price_17, us_price_current, ratio)
           THEN Null
           ELSE calculate_theoretical_price(arg_price, us_price_17, us_price_current, ratio)
    /\ pc' = "calc_theoretical"
    /\ UNCHANGED <<clock, faults, envVars, resolveVars, fetchVars, histVars,
                   ratio, arg_price, us_price_17, us_price_current,
                   implied_rate_17, implied_rate_current, summary_row>>

CalcImplied ==
    /\ pc = "calc"
    /\ implied_rate_current' =
           calculate_implied_exchange_rate(arg_price, us_price_current, ratio)
    /\ pc' = "calc_implied"
    /\ UNCHANGED <<clock, faults, raised, envVars, resolveVars, fetchVars, histVars,
                   ratio, arg_price, us_price_17, us_price_current,
                   theoretical_price, implied_rate_17, summary_row>>

NextCalc == CalcTheoretical \/ CalcImplied

SpecCalc == InitCalc /\ [][NextCalc]_vars

\* ---- properties
Resolved == pc \in {"resolved", "computed", "substituted", "done"}
OffsetOf(sym) == IF sym = "arg" THEN 0 ELSE tzOffset
\* distance of an instant's time of day to 17:00
Dist(t) == Abs(TimeOf(t) - HMS(17, 0, 0))
\* a bar dated today in the domestic timezone, inside 17:00 +- tolerance
InWindowToday(b) ==
    DateOf(b.ts) = DateOf(now) /\ Dist(b.ts) <= ToleranceMinutes * Minute
PositionAfter(p) ==
    IF p[2] < retries - 1 THEN <<p[1], p[2] + 1, "TryAttempt">>
    ELSE IF p[1] < max_days_back - 1 THEN <<p[1] + 1, 0, "TryAttempt">>
    ELSE <<p[1], p[2], "Failed">>

\* C1: while the provider has returned an empty series on every call, the
\* calls made are the pairs (days_back, attempt) in lexicographic order from
\* (0, 0), there are never more than retries * max_days_back of them, and the
\* fetch has failed exactly when all retries * max_days_back have been made.
C1_ExhaustsBudget ==
    allEmpty =>
        /\ \A i \in 1..Len(calls) :
               calls[i] = <<(i - 1) \div retries, (i - 1) % retries>>
        /\ Len(calls) <= retries * max_days_back
        /\ (fstate = "Failed") <=> (Len(calls) = retries * max_days_back)

C1_Witness ==
    fstate = "Failed" /\ allEmpty /\ Len(calls) = 15 /\ calls[15] = <<4, 2>>

\* C2 as claimed: a call that returns a non-empty series, after empty
\* answers on every earlier day, makes the fetch succeed on that day.
C2_AsClaimed ==
    (lastPos # Null /\ priorEmpty /\ lastRaw # <<>>) =>
        (fstate = "Success" /\ days_back = lastPos[1])

\* C2: a call that returns a series of which at least one bar passes the
\* delay filter (any non-empty series when apply_delay is off), after empty
\* answers on every earlier day, makes the fetch succeed with that day's
\* days_back; the call asked for the window with both bounds shifted by
\* days_back, and the series returned is the bars of that answer that pass
\* the filter, all dated inside the shifted window.
C2_FallbackDay ==
    ( /\ lastPos # Null
      /\ priorEmpty
      /\ lastRaw # <<>>
      /\ apply_delay =>
             \E i \in 1..Len(lastRaw) :
                 lastRaw[i].ts <= lastReq.at - DelayMinutes * Minute )
    => /\ fstate = "Success"
       /\ days_back = lastPos[1]
       /\ lastReq.start = DateOf(now) - days_back
       /\ lastReq.end = DateOf(now) + 1 - days_back
       /\ stock # Null
       /\ \A i \in 1..Len(stock) :
              /\ \E j \in 1..Len(lastRaw) : lastRaw[j] = stock[i]
              /\ RawDate(stock[i].ts, OffsetOf(ticker)) = DateOf(now) - days_back
       /\ \A j \in 1..Len(lastRaw) :
              (~apply_delay \/ lastRaw[j].ts <= lastReq.at - DelayMinutes * Minute)
                  => \E i \in 1..Len(stock) : stock[i] = lastRaw[j]

C2_Witness ==
    /\ fstate = "Success" /\ priorEmpty /\ days_back = 1 /\ apply_delay
    /\ Len(calls) = 4

\* C3 as claimed: the bar returned by the 17:00 lookup is, among the bars of
\* today inside the window, one of least distance to 17:00, and the earlier
\* one when two are at the same distance.
C3_AsClaimed ==
    (Resolved /\ closest_time # Null) =>
        \A i \in 1..Len(us_data) :
            InWindowToday(us_data[i]) =>
                \/ Dist(closest_time[1]) < Dist(us_data[i].ts)
                \/ /\ Dist(closest_time[1]) = Dist(us_data[i].ts)
                   /\ closest_time[1] <= us_data[i].ts

\* C4: the bar returned by the 17:00 lookup is never further than the
\* tolerance from 17:00, and the 17:00 price is None, never zero, exactly
\* when the fetched series has no bar of today inside the window.
C4_WithinTolerance ==
    Resolved =>
        /\ closest_time # Null => Dist(closest_time[1]) <= ToleranceMinutes * Minute
        /\ (result.us_price_17 = Null) <=>
               ~ \E i \in 1..Len(us_data) : InWindowToday(us_data[i])
        /\ (result.us_price_17 = Null) <=> (closest_time = Null)
        /\ result.us_price_17 # Float(0)

C4_Witness ==
    /\ pc = "resolved"
    /\ closest_time = <<HMS(17, 10, 0)>>
    /\ result.us_price_17 # Null
    /\ \E i \in 1..Len(us_data) : us_data[i].ts = HMS(17, 10, 0) + 1

\* C5 as claimed: calculate_implied_exchange_rate never raises, returns None
\* unless both prices are positive and the ratio is truthy, and returns
\* (domestic * ratio) / foreign otherwise.
C5_AsClaimed ==
    pc = "calc_implied" =>
        /\ ~raised
        /\ implied_rate_current =
               IF Positive(arg_price) /\ Positive(us_price_current) /\ Truthy(ratio)
               THEN Frac(arg_price[1] * ratio[1] * us_price_current[2],
                         arg_price[2] * ratio[2] * us_price_current[1])
               ELSE Null

\* C6: on numbers for the domestic price and the foreign price now,
\* calculate_theoretical_price returns None exactly when the foreign price at
\* the target time is None or zero, and otherwise a value t with
\* t * target = domestic * (target + (now - target)), whatever the ratio;
\* (100, 50, 55) gives 110.
C6_TheoreticalPrice ==
    (pc = "calc_theoretical" /\ arg_price # Null /\ us_price_current # Null) =>
        /\ ~raised
        /\ (theoretical_price = Null) <=> (us_price_17 = Null \/ us_price_17[1] = 0)
        /\ theoretical_price # Null =>
               theoretical_price[1] * us_price_17[1] * arg_price[2] * us_price_current[2] =
                   theoretical_price[2] * arg_price[1] * us_price_17[2] *
                       ( us_price_17[1] * us_price_current[2]
                         + (us_price_current[1] * us_price_17[2]
                            - us_price_17[1] * us_price_current[2]) )
        /\ (arg_price = Float(100) /\ us_price_17 = Float(50) /\ us_price_current = Float(55))
               => theoretical_price = Float(110)

C6_Witness ==
    /\ pc = "calc_theoretical"
    /\ arg_price = Float(100) /\ us_price_17 = Float(50) /\ us_price_current = Float(55)
    /\ ratio = Float(2)
    /\ theoretical_price = Float(110)

\* the implied rate at the target time as lines 275-276 compute it
TargetRate ==
    IF Positive(arg_price) /\ Positive(us_price_17)
    THEN calculate_implied_exchange_rate(arg_price, us_price_17, ratio)
    ELSE Null

\* C7 as claimed: after the fallback step the stored target-time implied
\* rate is still None whenever the rate computed for the target time is None.
C7_AsClaimed ==
    pc \in {"substituted", "done"} =>
        (TargetRate = Null => implied_rate_17 = Null)

\* C8: the delay flag is set exactly when the time of day of now lies in
\* [11:30:00, 17:00:00); within the seconds 11:30:00 and 16:59:59 it is set,
\* within 11:29:59 and at 17:00:00, 10:00 and 18:00 it is not.
C8_SessionWindow ==
    pc \notin {"start", "calc", "calc_theoretical", "calc_implied"} =>
        /\ apply_us_delay <=>
               (HMS(11, 30, 0) <= TimeOf(now) /\ TimeOf(now) < HMS(17, 0, 0))
        /\ result.delayed_status = IF apply_us_delay THEN "DELAYED" ELSE "REAL-TIME"
        /\ ReplaceMicro0(TimeOf(now)) \in {HMS(11, 30, 0), HMS(16, 59, 59)} => apply_us_delay
        /\ ReplaceMicro0(TimeOf(now)) \in {HMS(11, 29, 59), HMS(17, 0, 0),
                                           HMS(10, 0, 0), HMS(18, 0, 0)} => ~apply_us_delay

C8_Witness ==
    pc = "fetch_arg" /\ now = HMS(16, 59, 59) + 1 /\ apply_us_delay

\* C9: an empty answer, an answer emptied by the delay filter and a provider
\* exception each use up one attempt and leave the fetch at the same next
\* position (same day while attempts remain, else the next day, else Failed),
\* after the same sleep and with nothing returned; the fetch succeeds only on
\* an answer that is non-empty after the filter; no exception leaves it.
C9_FailuresAlike ==
    /\ ~raised
    /\ (fstate = "Success") <=> (lastOutcome = "data")
    /\ lastPos # Null =>
           /\ Len(calls) = lastPos[1] * retries + lastPos[2] + 1
           /\ lastOutcome \in {"empty", "filtered", "exception"} =>
                  /\ <<days_back, attempt, fstate>> = PositionAfter(lastPos)
                  /\ stock = Null
                  /\ clock = lastReq.at + SleepSeconds * Second
           /\ lastOutcome = "data" =>
                  /\ stock # Null
                  /\ apply_delay =>
                         \A i \in 1..Len(stock) :
                             stock[i].ts <= lastReq.at - DelayMinutes * Minute

C9_Witness ==
    /\ lastOutcome = "filtered" /\ lastPos = <<0, 2>>
    /\ days_back = 1 /\ attempt = 0 /\ fstate = "TryAttempt"
    /\ faults < MaxFaults

\* C10: when the foreign fetch succeeded on an earlier day's window, the
\* snapshot has the foreign price now but no 17:00 price and no 17:00 time,
\* and a theoretical price exists only on a 17:00 price that was typed in.
C10_StaleDayNoTarget ==
    (Resolved /\ fstate = "Success" /\ days_back > 0) =>
        /\ result.us_price_18 # Null
        /\ result.us_price_17 = Null
        /\ result.time_17 = Null
        /\ (pc # "resolved" /\ theoretical_price # Null) => us_price_17 \in ManualInputs

C10_Witness ==
    /\ pc = "resolved" /\ fstate = "Success" /\ days_back = 1
    /\ \E i \in 1..Len(us_data) : TimeOf(us_data[i].ts) = HMS(17, 0, 0)
    /\ result.us_price_18 # Null
====
